---- MODULE Spec2Model ----
(***************************************************************************)
(* The export pipeline of VideoExporter (src/unnamed/part_001, lines       *)
(* 656-1005): export(), initializeEncoder(), cancel(), cleanup(), the time *)
(* map getEffectiveDuration / mapEffectiveToSourceTime, and the platform   *)
(* objects the exporter drives (the <video> element it seeks, the          *)
(* WebCodecs VideoEncoder, the muxer).                                     *)
(*                                                                         *)
(* JavaScript runs one task at a time: every action below is one task (or  *)
(* one task plus the microtasks it releases), i.e. the code between two    *)
(* points at which export() really yields to the event loop.  The          *)
(* synchronous code of a task is written as a function from state records  *)
(* to state records, so that cleanup(), cancel() and the loop body compose *)
(* exactly as the calls do in the source.                                  *)
(*                                                                         *)
(* Times are whole microseconds.  The source holds them in doubles         *)
(* (seconds, milliseconds and microseconds); idx * timeStep * 1000 ms is   *)
(* kept here as floor(idx * 1000000 / frameRate) microseconds.             *)
(***************************************************************************)
EXTENDS Integers, Sequences, FiniteSets, TLC

\* ------------------------------------------------------------------ bounds
\* Frames of output in the runs explored.
NumFrames == 4
\* const DECODE_AHEAD = 10 in the source (part_001:757); scaled down here.
DECODE_AHEAD == 2
\* MAX_ENCODE_QUEUE = 120 in the source (part_001:664); scaled down here.
MAX_ENCODE_QUEUE == 2
\* Time-map exploration: trims lie in 0..MaxTrimTime (ms), at most MaxTrims
\* of them, and frames 0..MaxFrameIdx are mapped.
MaxTrimTime == 5
MaxTrims == 2
MaxFrameIdx == 6

\* ------------------------------------------------------ program constants
\* keyFrame: frameIndex % 150 === 0
KEYFRAME_INTERVAL == 150
\* Math.abs(videoElement.currentTime - videoTime) > 0.001 (seconds)
SEEK_EPSILON_US == 1000
\* const frameDuration = 1_000_000 / this.config.frameRate
US_PER_SECOND == 1000000
\* (region.endMs - region.startMs) / 1000, sourceTimeMs * 1000
US_PER_MS == 1000

\* ----------------------------------------------------------------- helpers
Abs(x) == IF x < 0 THEN -x ELSE x
Min(a, b) == IF a < b THEN a ELSE b
\* Math.ceil(a / b) for b > 0
CeilDiv(a, b) == -((-a) \div b)

RECURSIVE SumLen(_)
SumLen(trims) ==
  IF trims = <<>> THEN 0
  ELSE (Head(trims).endMs - Head(trims).startMs) + SumLen(Tail(trims))

\* -------------------------------------------------------------- time map
\* getEffectiveDuration, in the unit of the trims: totalDuration minus the
\* sum of (endMs - startMs) over the configured trim regions, as listed.
getEffectiveDuration(trimRegions, totalDuration) ==
  totalDuration - SumLen(trimRegions)

\* [...trimRegions].sort((a, b) => a.startMs - b.startMs): a stable sort.
RECURSIVE InsertSorted(_, _)
InsertSorted(sorted, t) ==
  IF sorted = <<>> THEN <<t>>
  ELSE IF t.startMs < Head(sorted).startMs THEN <<t>> \o sorted
  ELSE <<Head(sorted)>> \o InsertSorted(Tail(sorted), t)

SortByStartAsListed(trims) == trims

RECURSIVE SortByStart(_)
SortByStart(trims) ==
  IF trims = <<>> THEN <<>>
  ELSE InsertSorted(SortByStart(SubSeq(trims, 1, Len(trims) - 1)),
                    trims[Len(trims)])

\* The loop's exit test: "if (sourceTimeMs < trim.startMs) break".
TrimNotReachedInverted(sourceTimeMs, trim) == sourceTimeMs >= trim.startMs
TrimNotReachedOffByOne(sourceTimeMs, trim) == sourceTimeMs <= trim.startMs
TrimNotReached(sourceTimeMs, trim) == sourceTimeMs < trim.startMs

\* The for loop over sortedTrims.
RECURSIVE ScanTrimsJumpToEnd(_, _)
ScanTrimsJumpToEnd(sortedTrims, sourceTimeMs) ==
  IF sortedTrims = <<>> THEN sourceTimeMs
  ELSE IF sourceTimeMs < Head(sortedTrims).startMs THEN sourceTimeMs
  ELSE ScanTrimsJumpToEnd(Tail(sortedTrims), Head(sortedTrims).endMs)

RECURSIVE ScanTrims(_, _)
ScanTrims(sortedTrims, sourceTimeMs) ==
  IF sortedTrims = <<>> THEN sourceTimeMs
  ELSE IF TrimNotReached(sourceTimeMs, Head(sortedTrims)) THEN sourceTimeMs
  ELSE ScanTrims(Tail(sortedTrims),
                 sourceTimeMs + (Head(sortedTrims).endMs - Head(sortedTrims).startMs))

mapEffectiveToSourceTime(trimRegions, effectiveTimeMs) ==
  ScanTrims(SortByStart(trimRegions), effectiveTimeMs)

\* A trim list in another unit (ms -> us).
ScaleTrims(trims, k) ==
  [i \in 1..Len(trims) |->
     [startMs |-> trims[i].startMs * k, endMs |-> trims[i].endMs * k]]

\* ------------------------------------------------------------------ state
VARIABLES
  cfg,            \* this.config and the source clip: frameRate, durationUs, trimRegions
  pc,             \* where export() is suspended
  result,         \* what export() returned: "none" until it returns
  errorKind,      \* which throw produced an error result
  cancelled,      \* this.cancelled
  decoder,        \* this.decoder: "null" or "obj"
  renderer,       \* this.renderer
  encoder,        \* this.encoder
  muxer,          \* this.muxer
  encodeQueue,    \* this.encodeQueue
  muxingPromises, \* length of this.muxingPromises
  chunkCount,     \* this.chunkCount
  totalFrames,    \* const totalFrames
  frameQueue,     \* const frameQueue: decoded frames, in push order
  frameIndex,     \* let frameIndex
  decodeIndex,    \* let decodeIndex
  prefillI,       \* the i of the pre-decode loop
  cur,            \* the frame taken from the queue (a one-element sequence) or <<>>
  currentTime,    \* videoElement.currentTime, us
  seeking,        \* videoElement.seeking
  pendingDecodes, \* decodeFrame calls waiting on 'seeked', in call order
  encState,       \* the VideoEncoder's state: none, unconfigured, configured, closed
  encPending,     \* frames the encoder holds and has not yet output
  muxCalls,       \* the timestamps of the addVideoChunk calls, in call order
  muxUnresolved,  \* addVideoChunk calls not yet resolved
  finalizeCalls,  \* calls of muxer.finalize()
  flushCompleted, \* encoder.flush() resolved
  submitted,      \* the frames passed to encoder.encode, in order
  queueAtSubmit,  \* this.encodeQueue just before each encode
  emitted,        \* chunks the encoder has output
  created,        \* objects constructed, per component
  released,       \* close()/destroy() calls made by cleanup, per component
  openDecoded,    \* VideoFrames made from the video element and not closed
  openComposited, \* VideoFrames made from the canvas and not closed
  fatal,          \* the first failure of a component in this run
  encoderFailed,  \* the encoder closed itself with an error
  videoDescription, \* this.videoDescription: undefined or captured
  videoColorSpace, \* this.videoColorSpace: undefined or captured
  muxMetas,       \* the metadata of the addVideoChunk calls, in call order
  muxRejected,    \* the first rejection of an addVideoChunk call
  hwAccel,        \* encoderConfig.hardwareAcceleration
  configuredWith, \* the hardwareAcceleration passed to encoder.configure()
  support,        \* what isConfigSupported answered
  outputMetas,    \* the metadata the encoder passed to the output callback, in order
  progress,       \* the events passed to config.onProgress, in order
  decodeFailed,   \* a decodeFrame call was rejected
  descriptionFrom, \* number of the chunk whose metadata gave the held description (0: none)
  colorSpaceFrom, \* number of the chunk whose metadata gave the held colour space (0: none)
  requested,      \* the frame indexes decodeFrame has asked the source for, in order
  rendered,       \* the decode indexes of the frames passed to renderFrame, in order
  cancelCalled,   \* cancel() was called while export() was running
  tmTrims,        \* time-map exploration: a trim list
  tmPeriod,       \*   a frame period
  tmIdx,          \*   a frame index
  tmSource,       \*   mapEffectiveToSourceTime(tmIdx * tmPeriod)
  fsTotal,        \* frame-schedule exploration: totalFrames
  fsIndex,        \*   frameIndex
  fsKeys,         \*   the frame indices passed to encode with keyFrame: true
  fsPts,          \*   the timestamp of the frame passed to encode last
  fsSource,       \*   the source time decodeFrame asked for that frame
  trimRegionsRef, \* preview: trimRegionsRef.current, in ms
  videoPaused,    \*   video.paused
  videoEnded,     \*   video.ended
  videoCurrentTime, \* video.currentTime, in ms
  mediaEvents,    \*   the media events queued on the video element, oldest first
  isSeekingRef,   \*   isSeekingRef.current
  isPlayingRef,   \*   isPlayingRef.current
  allowPlaybackRef, \* allowPlaybackRef.current
  currentTimeRef, \*   currentTimeRef.current, in ms
  timeUpdateAnimationRef, \* timeUpdateAnimationRef.current (0: null)
  scheduledFrames, \*  the ids of the animation-frame callbacks now scheduled
  lastHandler,    \*   the handler that ran last ("none" after a step of the environment)
  reported,       \*   the call of onTimeUpdate the last step made, if any: its time in ms, and whether the video was playing
  activeRegion    \*   the trim region the last updateTime or handleSeeked took its skip branch for

tmVars == <<tmTrims, tmPeriod, tmIdx, tmSource>>

fsVars == <<fsTotal, fsIndex, fsKeys, fsPts, fsSource>>

pvVars == <<trimRegionsRef, videoPaused, videoEnded, videoCurrentTime,
            mediaEvents, isSeekingRef, isPlayingRef, allowPlaybackRef,
            currentTimeRef, timeUpdateAnimationRef, scheduledFrames,
            lastHandler, reported, activeRegion>>

vars == <<cfg, pc, result, errorKind, cancelled, decoder, renderer, encoder,
          muxer, encodeQueue, muxingPromises, chunkCount, totalFrames,
          frameQueue, frameIndex, decodeIndex, prefillI, cur, currentTime,
          seeking, pendingDecodes, encState, encPending, muxCalls,
          muxUnresolved, finalizeCalls, flushCompleted, submitted,
          queueAtSubmit, emitted, created, released, openDecoded, openComposited, fatal,
          encoderFailed,
          videoDescription,
          videoColorSpace,
          muxMetas,
          muxRejected,
          hwAccel,
          configuredWith,
          support,
          outputMetas,
          progress,
          decodeFailed,
          descriptionFrom,
          colorSpaceFrom,
          requested,
          rendered,
          cancelCalled,
          tmTrims, tmPeriod, tmIdx, tmSource,
          fsTotal, fsIndex, fsKeys, fsPts, fsSource,
          trimRegionsRef, videoPaused, videoEnded, videoCurrentTime,
          mediaEvents, isSeekingRef, isPlayingRef, allowPlaybackRef,
          currentTimeRef, timeUpdateAnimationRef, scheduledFrames,
          lastHandler, reported, activeRegion>>

\* The exporter's state as one record, for the synchronous code.
State ==
  [cfg |-> cfg, pc |-> pc, result |-> result, errorKind |-> errorKind,
   cancelled |-> cancelled, decoder |-> decoder, renderer |-> renderer,
   encoder |-> encoder, muxer |-> muxer, encodeQueue |-> encodeQueue,
   muxingPromises |-> muxingPromises, chunkCount |-> chunkCount,
   totalFrames |-> totalFrames, frameQueue |-> frameQueue,
   frameIndex |-> frameIndex, decodeIndex |-> decodeIndex,
   prefillI |-> prefillI, cur |-> cur, currentTime |-> currentTime,
   seeking |-> seeking, pendingDecodes |-> pendingDecodes,
   encState |-> encState, encPending |-> encPending, muxCalls |-> muxCalls,
   muxUnresolved |-> muxUnresolved, finalizeCalls |-> finalizeCalls,
   flushCompleted |-> flushCompleted, submitted |-> submitted,
   queueAtSubmit |-> queueAtSubmit,
   emitted |-> emitted, created |-> created, released |-> released,
   openDecoded |-> openDecoded, openComposited |-> openComposited,
   fatal |-> fatal,
   encoderFailed |-> encoderFailed,
   videoDescription |-> videoDescription,
   videoColorSpace |-> videoColorSpace,
   muxMetas |-> muxMetas,
   muxRejected |-> muxRejected,
   hwAccel |-> hwAccel,
   configuredWith |-> configuredWith,
   support |-> support,
   outputMetas |-> outputMetas,
   progress |-> progress,
   decodeFailed |-> decodeFailed,
   descriptionFrom |-> descriptionFrom,
   colorSpaceFrom |-> colorSpaceFrom,
   requested |-> requested,
   rendered |-> rendered,
   cancelCalled |-> cancelCalled]

\* The task ends in state s.
Commit(s) ==
  /\ cfg' = s.cfg /\ pc' = s.pc /\ result' = s.result
  /\ errorKind' = s.errorKind /\ cancelled' = s.cancelled
  /\ decoder' = s.decoder /\ renderer' = s.renderer /\ encoder' = s.encoder
  /\ muxer' = s.muxer /\ encodeQueue' = s.encodeQueue
  /\ muxingPromises' = s.muxingPromises /\ chunkCount' = s.chunkCount
  /\ totalFrames' = s.totalFrames /\ frameQueue' = s.frameQueue
  /\ frameIndex' = s.frameIndex /\ decodeIndex' = s.decodeIndex
  /\ prefillI' = s.prefillI /\ cur' = s.cur /\ currentTime' = s.currentTime
  /\ seeking' = s.seeking /\ pendingDecodes' = s.pendingDecodes
  /\ encState' = s.encState /\ encPending' = s.encPending
  /\ muxCalls' = s.muxCalls /\ muxUnresolved' = s.muxUnresolved
  /\ finalizeCalls' = s.finalizeCalls /\ flushCompleted' = s.flushCompleted
  /\ submitted' = s.submitted /\ queueAtSubmit' = s.queueAtSubmit
  /\ emitted' = s.emitted
  /\ created' = s.created /\ released' = s.released
  /\ openDecoded' = s.openDecoded /\ openComposited' = s.openComposited
  /\ fatal' = s.fatal
  /\ encoderFailed' = s.encoderFailed
  /\ videoDescription' = s.videoDescription
  /\ videoColorSpace' = s.videoColorSpace
  /\ muxMetas' = s.muxMetas
  /\ muxRejected' = s.muxRejected
  /\ hwAccel' = s.hwAccel
  /\ configuredWith' = s.configuredWith
  /\ support' = s.support
  /\ outputMetas' = s.outputMetas
  /\ progress' = s.progress
  /\ decodeFailed' = s.decodeFailed
  /\ descriptionFrom' = s.descriptionFrom
  /\ colorSpaceFrom' = s.colorSpaceFrom
  /\ requested' = s.requested
  /\ rendered' = s.rendered
  /\ cancelCalled' = s.cancelCalled
  /\ UNCHANGED tmVars
  /\ UNCHANGED fsVars
  /\ UNCHANGED pvVars

\* ------------------------------------------------------ the configurations
\* One clip with a trim in it and a frame rate that divides a second into
\* whole microseconds; one clip without trims at 30 frames per second.
\* Each yields NumFrames frames of output.  Two more clips are trimmed
\* away: one by a trim that covers it, one by trims longer than the clip.
\* The last clip is one frame long, shorter than the decode-ahead depth.
Configs ==
  { [frameRate |-> 25, durationUs |-> (NumFrames + 2) * 40000,
     trimRegions |-> << [startMs |-> 40, endMs |-> 120] >>],
    [frameRate |-> 30, durationUs |-> NumFrames * 33333,
     trimRegions |-> << >>],
    [frameRate |-> 25, durationUs |-> 80000,
     trimRegions |-> << [startMs |-> 0, endMs |-> 80] >>],
    [frameRate |-> 25, durationUs |-> 80000,
     trimRegions |-> << [startMs |-> 0, endMs |-> 80],
                        [startMs |-> 40, endMs |-> 120] >>],
    [frameRate |-> 25, durationUs |-> 40000,
     trimRegions |-> << >>] }

\* ------------------------------------------------- export(): derived values
\* const frameDuration = 1_000_000 / frameRate, as the integer a VideoFrame
\* keeps of it (duration is an unsigned long long).
FrameDurationUs(c) == US_PER_SECOND \div c.frameRate

\* const timestamp = idx * frameDuration, as the integer a VideoFrame keeps
\* of it (timestamp is a long long: the fraction is dropped).
TimestampRounded(c, idx) ==
  (idx * US_PER_SECOND + c.frameRate \div 2) \div c.frameRate
TimestampTruncatedPeriod(c, idx) == idx * (US_PER_SECOND \div c.frameRate)
TimestampOf(c, idx) == (idx * US_PER_SECOND) \div c.frameRate

\* const effectiveTimeMs = (idx * timeStep) * 1000, in us.
EffectiveTimeUs(c, idx) == (idx * US_PER_SECOND) \div c.frameRate

\* const sourceTimeMs = this.mapEffectiveToSourceTime(effectiveTimeMs), in us
\* (videoTime and sourceTimestamp are this value in seconds and in us).
SourceTimeUs(c, idx) ==
  mapEffectiveToSourceTime(ScaleTrims(c.trimRegions, US_PER_MS),
                           EffectiveTimeUs(c, idx))

\* const totalFrames = Math.ceil(effectiveDuration * frameRate)
TotalFramesByPeriod(c) ==
  CeilDiv(getEffectiveDuration(ScaleTrims(c.trimRegions, US_PER_MS),
                               c.durationUs),
          US_PER_SECOND \div c.frameRate)

\* The product effectiveDuration * frameRate is a double.  Where it is a
\* whole number exactly, the double can come out above it, and Math.ceil
\* then gives one more: 0.28 * 25 is 7.000000000000001 and 0.28 * 50 is
\* 14.000000000000002.  On the other configurations used here the double
\* product has the ceiling of the exact one.
DoubleProductAbove(c) ==
  /\ c.durationUs = 280000
  /\ c.trimRegions = << >>
  /\ c.frameRate \in {25, 50}

TotalFramesOf(c) ==
  CeilDiv(getEffectiveDuration(ScaleTrims(c.trimRegions, US_PER_MS),
                               c.durationUs) * c.frameRate,
          US_PER_SECOND)
    + (IF DoubleProductAbove(c) THEN 1 ELSE 0)

\* ----------------------------------------------------- synchronous code
\* cleanup(): close the encoder if it is configured, destroy the decoder and
\* the renderer if present, forget all four, reset the counters.
cleanupKeepingDecoder(s) ==
  LET closeIt == s.encoder # "null" /\ s.encState = "configured"
  IN [s EXCEPT
        !.encState = IF closeIt THEN "closed" ELSE @,
        !.encPending = IF closeIt THEN <<>> ELSE @,
        !.released =
           [encoder |-> @.encoder + (IF closeIt THEN 1 ELSE 0),
            decoder |-> @.decoder + (IF s.decoder # "null" THEN 1 ELSE 0),
            renderer |-> @.renderer + (IF s.renderer # "null" THEN 1 ELSE 0)],
        !.encoder = "null",
        !.renderer = "null",
        !.muxer = "null",
        !.encodeQueue = 0,
        !.muxingPromises = 0,
        !.chunkCount = 0,
        !.videoDescription = "undefined",
        !.videoColorSpace = "undefined"]

cleanup(s) ==
  LET closeIt == s.encoder # "null" /\ s.encState = "configured"
  IN [s EXCEPT
        !.encState = IF closeIt THEN "closed" ELSE @,
        !.encPending = IF closeIt THEN <<>> ELSE @,
        !.released =
           [encoder |-> @.encoder + (IF closeIt THEN 1 ELSE 0),
            decoder |-> @.decoder + (IF s.decoder # "null" THEN 1 ELSE 0),
            renderer |-> @.renderer + (IF s.renderer # "null" THEN 1 ELSE 0)],
        !.encoder = "null",
        !.decoder = "null",
        !.renderer = "null",
        !.muxer = "null",
        !.encodeQueue = 0,
        !.muxingPromises = 0,
        !.chunkCount = 0,
        !.videoDescription = "undefined",
        !.videoColorSpace = "undefined"]

\* cancel(): this.cancelled = true; this.cleanup().
cancel(s) == cleanup([s EXCEPT !.cancelled = TRUE])

\* "return {...}" inside the try: the finally block runs cleanup().
Return(s, res) ==
  cleanup([s EXCEPT !.result = res, !.pc = "done"])

\* Errors export() meets only because a component was taken away under it:
\* a call on a null reference, a flush() aborted by encoder.close().
DerivedErrors == {"TypeError", "FlushAborted"}

\* A throw inside the try: the catch returns { success: false, error }.
Throw(s, kind) ==
  Return([s EXCEPT !.errorKind = kind,
                   !.fatal = IF @ = "none" /\ kind \notin DerivedErrors
                             THEN kind ELSE @],
         "error")

\* new VideoFrame(videoElement, { timestamp }); frameQueue.push(...): the
\* frame shows whatever the element is positioned at.
QueuePushFront(q, f) == <<f>> \o q
QueuePush(q, f) == Append(q, f)

CaptureFrame(s, idx) ==
  [s EXCEPT
     !.frameQueue =
        QueuePush(@, [idx |-> idx,
                      timestamp |-> TimestampOf(s.cfg, idx),
                      sourceTimestamp |-> SourceTimeUs(s.cfg, idx),
                      capturedAt |-> s.currentTime]),
     !.openDecoded = @ + 1]

\* decodeFrame(idx) up to its first await: return when idx is past the end;
\* seek (set currentTime, wait for 'seeked') when the element is more than
\* 1 ms from the frame or idx is 0; otherwise capture at once.  Setting
\* currentTime past the end of the clip positions the element at its end.
decodeFrame(s, idx) ==
  IF idx >= s.totalFrames THEN s
  ELSE LET videoTime == SourceTimeUs(s.cfg, idx)
           needsSeek == Abs(s.currentTime - videoTime) > SEEK_EPSILON_US
           s1 == [s EXCEPT !.requested = Append(@, idx)]
       IN IF needsSeek \/ idx = 0
          THEN [s1 EXCEPT !.currentTime = Min(videoTime, s.cfg.durationUs),
                          !.seeking = TRUE,
                          !.pendingDecodes = Append(@, idx)]
          ELSE CaptureFrame(s1, idx)

\* After the loop: the cancelled test, then flush if the encoder is
\* configured, then Promise.all(this.muxingPromises).
AfterLoopIgnoringCancel(s) ==
  IF s.encoder # "null" /\ s.encState = "configured"
  THEN [s EXCEPT !.pc = "flush"]
  ELSE [s EXCEPT !.pc = "muxWait"]

AfterLoop(s) ==
  IF s.cancelled THEN Return(s, "cancelled")
  ELSE IF s.encoder # "null" /\ s.encState = "configured"
       THEN [s EXCEPT !.pc = "flush"]
       ELSE [s EXCEPT !.pc = "muxWait"]

\* await this.renderer!.renderFrame(videoFrame, sourceTimestamp): a null
\* renderer makes the call itself throw a TypeError.
RenderCall(s) ==
  IF s.renderer = "null" THEN Throw(s, "TypeError")
  ELSE [s EXCEPT !.pc = "render", !.rendered = Append(@, s.cur[1].idx)]

\* const {...} = frameQueue.shift()!
TakeFrameNotShifted(s) ==
  [s EXCEPT !.cur = <<Head(s.frameQueue)>>]

TakeFrame(s) ==
  [s EXCEPT !.cur = <<Head(s.frameQueue)>>, !.frameQueue = Tail(@)]

\* The head of the main loop: the while condition, the wait for a decoded
\* frame, the shift and the call of renderFrame.
LoopTop(s) ==
  IF s.frameIndex < s.totalFrames /\ ~s.cancelled
  THEN IF s.frameQueue = <<>>
       THEN [s EXCEPT !.pc = "queueWait"]
       ELSE RenderCall(TakeFrame(s))
  ELSE AfterLoop(s)

\* "if (this.encoder && this.encoder.state === 'configured')"
EncoderUsableIfPresent(s) == s.encoder # "null"
EncoderUsable(s) == s.encoder # "null" /\ s.encState = "configured"

\* The forced-keyframe flag of frame frameIndex.
KeyFrameOfFirstOnly(frameIdx) == frameIdx = 0
KeyFrameOfEverySecond(frameIdx) == frameIdx % 30 = 0
KeyFrameOf(frameIdx) == frameIdx % KEYFRAME_INTERVAL = 0

\* this.encodeQueue++; this.encoder.encode(exportFrame, { keyFrame })
\* when the encoder is usable.
Encode(s) ==
  IF EncoderUsable(s)
  THEN LET f == [timestamp |-> s.cur[1].timestamp,
                 duration |-> FrameDurationUs(s.cfg),
                 keyFrame |-> KeyFrameOf(s.frameIndex)]
       IN [s EXCEPT !.encodeQueue = @ + 1,
                    !.encPending = Append(@, f),
                    !.submitted = Append(@, f),
                    !.queueAtSubmit = Append(@, s.encodeQueue)]
  ELSE s

\* The object passed to config.onProgress; frameIndex has been incremented.
\* The percentage is held in whole percent, rounded down.
Percentage(frameIdx, total) == (frameIdx * 100) \div total

ProgressEventBeforeIncrement(s) ==
  [currentFrame |-> s.frameIndex - 1,
   totalFrames |-> s.totalFrames,
   percentage |-> Percentage(s.frameIndex - 1, s.totalFrames),
   estimatedTimeRemaining |-> 0]

ProgressEvent(s) ==
  [currentFrame |-> s.frameIndex,
   totalFrames |-> s.totalFrames,
   percentage |-> Percentage(s.frameIndex, s.totalFrames),
   estimatedTimeRemaining |-> 0]

\* The rest of a loop iteration, from the encode to the next await:
\* encode, exportFrame.close(), frameIndex++, the fire-and-forget
\* decodeFrame(decodeIndex++), onProgress (the callback may call cancel()),
\* and the head of the next iteration.
SubmitAndContinue(s, cancelInCallback) ==
  LET s1 == Encode(s)
      s2 == [s1 EXCEPT !.openComposited = @ - 1,
                       !.frameIndex = @ + 1,
                       !.cur = <<>>]
      s3 == IF s2.decodeIndex < s2.totalFrames
            THEN decodeFrame([s2 EXCEPT !.decodeIndex = @ + 1], s2.decodeIndex)
            ELSE s2
      s4 == [s3 EXCEPT !.progress = Append(@, ProgressEvent(s3))]
      s5 == IF cancelInCallback
            THEN cancel([s4 EXCEPT !.cancelCalled = TRUE])
            ELSE s4
  IN LoopTop(s5)

\* "while (this.encodeQueue >= this.MAX_ENCODE_QUEUE && !this.cancelled)"
MustWaitNever(s) == FALSE
MustWait(s) == s.encodeQueue >= MAX_ENCODE_QUEUE /\ ~s.cancelled

\* After renderFrame resolved: videoFrame.close(), getCanvas() (a TypeError
\* on a null renderer), new VideoFrame(canvas, ...), the backpressure test.
AfterRenderWaitsFirst(s, cancelInCallback) ==
  LET s1 == [s EXCEPT !.openDecoded = @ - 1]
  IN IF s1.renderer = "null" THEN Throw(s1, "TypeError")
     ELSE IF MustWait(s1) THEN [s1 EXCEPT !.pc = "bpWait"]
     ELSE SubmitAndContinue([s1 EXCEPT !.openComposited = @ + 1],
                            cancelInCallback)

AfterRender(s, cancelInCallback) ==
  LET s1 == [s EXCEPT !.openDecoded = @ - 1]
  IN IF s1.renderer = "null" THEN Throw(s1, "TypeError")
     ELSE LET s2 == [s1 EXCEPT !.openComposited = @ + 1]
          IN IF MustWait(s2) THEN [s2 EXCEPT !.pc = "bpWait"]
             ELSE SubmitAndContinue(s2, cancelInCallback)

\* The pre-decode loop from index i on: "await decodeFrame(i)" suspends
\* only when the decode seeks; after the loop, frameIndex = 0,
\* decodeIndex = DECODE_AHEAD and the main loop starts.
RECURSIVE PrefillThenFromZero(_, _)
PrefillThenFromZero(s, i) ==
  IF i < Min(DECODE_AHEAD, s.totalFrames)
  THEN LET s1 == decodeFrame(s, i)
       IN IF s1.pendingDecodes # <<>>
          THEN [s1 EXCEPT !.pc = "prefill", !.prefillI = i]
          ELSE PrefillThenFromZero(s1, i + 1)
  ELSE LoopTop([s EXCEPT !.frameIndex = 0, !.decodeIndex = 0])

RECURSIVE Prefill(_, _)
Prefill(s, i) ==
  IF i < Min(DECODE_AHEAD, s.totalFrames)
  THEN LET s1 == decodeFrame(s, i)
       IN IF s1.pendingDecodes # <<>>
          THEN [s1 EXCEPT !.pc = "prefill", !.prefillI = i]
          ELSE Prefill(s1, i + 1)
  ELSE LoopTop([s EXCEPT !.frameIndex = 0, !.decodeIndex = DECODE_AHEAD])

\* The 'seeked' listeners, in registration order: each waiting decodeFrame
\* captures a frame at the element's position and pushes it.
RECURSIVE CaptureAll(_, _)
CaptureAll(s, idxs) ==
  IF idxs = <<>> THEN s
  ELSE CaptureAll(CaptureFrame(s, Head(idxs)), Tail(idxs))

\* this.encoder.configure(encoderConfig), the return of initializeEncoder,
\* this.muxer = new VideoMuxer(...), muxer.initialize().
ConfigureAndInitMuxer(s) ==
  IF s.encoder = "null" THEN Throw(s, "TypeError")
  ELSE [s EXCEPT !.encState = "configured",
                 !.configuredWith = s.hwAccel,
                 !.muxer = "obj",
                 !.pc = "muxerInit"]

\* ------------------------------------------------------------------- Init
\* The preview before a video element is mounted.
NoRegion == [startMs |-> -1, endMs |-> -1]

NoReport == [made |-> FALSE, time |-> 0, playing |-> FALSE]

PreviewIdle ==
  /\ trimRegionsRef = <<>>
  /\ videoPaused = TRUE
  /\ videoEnded = FALSE
  /\ videoCurrentTime = 0
  /\ mediaEvents = <<>>
  /\ isSeekingRef = FALSE
  /\ isPlayingRef = FALSE
  /\ allowPlaybackRef = FALSE
  /\ currentTimeRef = 0
  /\ timeUpdateAnimationRef = 0
  /\ scheduledFrames = {}
  /\ lastHandler = "none"
  /\ reported = NoReport
  /\ activeRegion = NoRegion

PipelineInit ==
  /\ pc = "idle" /\ result = "none" /\ errorKind = "none"
  /\ cancelled = FALSE
  /\ decoder = "null" /\ renderer = "null" /\ encoder = "null"
  /\ muxer = "null"
  /\ encodeQueue = 0 /\ muxingPromises = 0 /\ chunkCount = 0
  /\ totalFrames = 0 /\ frameQueue = <<>> /\ frameIndex = 0
  /\ decodeIndex = 0 /\ prefillI = 0 /\ cur = <<>>
  /\ currentTime = 0 /\ seeking = FALSE /\ pendingDecodes = <<>>
  /\ encState = "none" /\ encPending = <<>>
  /\ muxCalls = <<>> /\ muxUnresolved = 0 /\ finalizeCalls = 0
  /\ flushCompleted = FALSE /\ submitted = <<>> /\ queueAtSubmit = <<>>
  /\ emitted = 0
  /\ created = [encoder |-> 0, decoder |-> 0, renderer |-> 0]
  /\ released = [encoder |-> 0, decoder |-> 0, renderer |-> 0]
  /\ openDecoded = 0 /\ openComposited = 0
  /\ fatal = "none"
  /\ encoderFailed = FALSE
  /\ videoDescription = "undefined"
  /\ videoColorSpace = "undefined"
  /\ muxMetas = <<>>
  /\ muxRejected = "none"
  /\ hwAccel = "none"
  /\ configuredWith = "none"
  /\ support = [hw |-> "unknown", sw |-> "unknown"]
  /\ outputMetas = <<>>
  /\ progress = <<>>
  /\ decodeFailed = FALSE
  /\ descriptionFrom = 0
  /\ colorSpaceFrom = 0
  /\ requested = <<>>
  /\ rendered = <<>>
  /\ cancelCalled = FALSE

Init ==
  /\ cfg \in Configs
  /\ PipelineInit
  /\ tmTrims = <<>> /\ tmPeriod = 1 /\ tmIdx = 0 /\ tmSource = 0
  /\ fsTotal = 0 /\ fsIndex = 0 /\ fsKeys = {} /\ fsPts = 0 /\ fsSource = 0
  /\ PreviewIdle

\* ---------------------------------------------------------------- actions
\* export() up to "await this.decoder.loadVideo(...)".
Start ==
  /\ pc = "idle"
  /\ LET s0 == cleanup(State)
     IN Commit([s0 EXCEPT !.cancelled = FALSE,
                          !.decoder = "obj",
                          !.created.decoder = @ + 1,
                          !.pc = "loadVideo"])

\* loadVideo settles; new FrameRenderer(...); "await renderer.initialize()".
LoadVideoDone ==
  /\ pc = "loadVideo"
  /\ \E ok \in BOOLEAN :
       Commit(IF ok
              THEN [State EXCEPT !.renderer = "obj",
                                 !.created.renderer = @ + 1,
                                 !.pc = "rendererInit"]
              ELSE Throw(State, "LoadFailed"))

\* renderer.initialize() settles; initializeEncoder() up to
\* "await VideoEncoder.isConfigSupported(encoderConfig)".
RendererInitDone ==
  /\ pc = "rendererInit"
  /\ \E ok \in BOOLEAN :
       Commit(IF ok
              THEN [State EXCEPT !.encodeQueue = 0,
                                 !.muxingPromises = 0,
                                 !.chunkCount = 0,
                                 !.encoder = "obj",
                                 !.encState = "unconfigured",
                                 !.created.encoder = @ + 1,
                                 !.hwAccel = "prefer-hardware",
                                 !.pc = "hwSupport"]
              ELSE Throw(State, "RendererInitFailed"))

\* The prefer-hardware answer: configure, or set
\* encoderConfig.hardwareAcceleration = 'prefer-software' and ask again.
HwSupportDoneAlwaysFallsBack ==
  /\ pc = "hwSupport"
  /\ \E supported \in BOOLEAN :
       Commit([State EXCEPT
                 !.support.hw = IF supported THEN "yes" ELSE "no",
                 !.hwAccel = "prefer-software",
                 !.pc = "swSupport"])

HwSupportDone ==
  /\ pc = "hwSupport"
  /\ \E supported \in BOOLEAN :
       LET s == [State EXCEPT !.support.hw = IF supported THEN "yes" ELSE "no"]
       IN Commit(IF supported
                 THEN ConfigureAndInitMuxer(s)
                 ELSE [s EXCEPT !.hwAccel = "prefer-software",
                                !.pc = "swSupport"])

\* The prefer-software answer: configure, or
\* throw new Error('Video encoding not supported').
SwSupportDone ==
  /\ pc = "swSupport"
  /\ \E supported \in BOOLEAN :
       LET s == [State EXCEPT !.support.sw = IF supported THEN "yes" ELSE "no"]
       IN Commit(IF supported
                 THEN ConfigureAndInitMuxer(s)
                 ELSE Throw(s, "CodecUnsupported"))

\* muxer.initialize() settles; this.decoder.getVideoElement() (a TypeError
\* on a null decoder); totalFrames; the pre-decode loop.
MuxerInitDone ==
  /\ pc = "muxerInit"
  /\ \E ok \in BOOLEAN :
       Commit(IF ~ok THEN Throw(State, "MuxerInitFailed")
              ELSE IF decoder = "null" THEN Throw(State, "TypeError")
              ELSE Prefill([State EXCEPT !.totalFrames = TotalFramesOf(cfg)], 0))

\* The element fires 'seeked': every waiting decodeFrame resumes, in the
\* order the listeners were added, and captures a frame; new VideoFrame
\* throws when the element has no frame to give.  The pre-decode loop
\* awaits decodeFrame: it goes on, or the rejection is thrown in export();
\* in the main loop the rejection is caught and logged.
SeekedEvent ==
  /\ seeking
  /\ \E ok \in BOOLEAN :
       LET s0 == [State EXCEPT !.seeking = FALSE, !.pendingDecodes = <<>>]
           s1 == IF ok THEN CaptureAll(s0, pendingDecodes)
                 ELSE [s0 EXCEPT !.decodeFailed = TRUE]
       IN Commit(IF pc # "prefill" THEN s1
                 ELSE IF ok THEN Prefill(s1, prefillI + 1)
                 ELSE Throw(s1, "DecodeFailed"))

\* "await new Promise(r => setTimeout(r, 1))" ends with a frame queued.
QueueWaitDone ==
  /\ pc = "queueWait"
  /\ frameQueue # <<>>
  /\ Commit(RenderCall(TakeFrame(State)))

\* renderFrame settles.
RenderDone ==
  /\ pc = "render"
  /\ \E ok \in BOOLEAN, cancelInCallback \in BOOLEAN :
       Commit(IF ok THEN AfterRender(State, cancelInCallback)
              ELSE Throw(State, "RenderFailed"))

\* The backpressure wait ends.
BpWaitDone ==
  /\ pc = "bpWait"
  /\ ~MustWait(State)
  /\ \E cancelInCallback \in BOOLEAN :
       Commit(SubmitAndContinue(State, cancelInCallback))

\* encoder.flush() resolves: every submitted frame has been output.
FlushDone ==
  /\ pc = "flush"
  /\ encState = "configured"
  /\ encPending = <<>>
  /\ Commit([State EXCEPT !.flushCompleted = TRUE, !.pc = "muxWait"])

\* encoder.flush() rejects: the encoder was closed under it, by close()
\* (an AbortError) or by its own failure (that error).
FlushRejected ==
  /\ pc = "flush"
  /\ encState = "closed"
  /\ Commit(Throw(State, IF encoderFailed THEN "EncoderError"
                         ELSE "FlushAborted"))

\* Promise.all(this.muxingPromises) resolves; this.muxer!.finalize() (a
\* TypeError on a null muxer).
MuxWaitDoneNotAwaited ==
  /\ pc = "muxWait"
  /\ Commit(IF muxer = "null" THEN Throw(State, "TypeError")
            ELSE [State EXCEPT !.finalizeCalls = @ + 1, !.pc = "finalize"])

MuxWaitDone ==
  /\ pc = "muxWait"
  /\ muxUnresolved = 0
  /\ Commit(IF muxer = "null" THEN Throw(State, "TypeError")
            ELSE [State EXCEPT !.finalizeCalls = @ + 1, !.pc = "finalize"])

\* muxer.finalize() settles.
FinalizeDone ==
  /\ pc = "finalize"
  /\ \E ok \in BOOLEAN :
       Commit(IF ok THEN Return(State, "success")
              ELSE Throw(State, "FinalizeFailed"))

\* The encoder's output callback, chunks in submission order: count the
\* chunk, call muxer.addVideoChunk, push the promise, this.encodeQueue--.
EncoderOutputLast(s) == s.encPending[Len(s.encPending)]
EncoderOutputNext(s) == Head(s.encPending)

\* The metadata the encoder passes with a chunk.  Its first output after
\* configure() carries a decoderConfig, with or without a description and
\* a colour space (that depends on the codec); the second output may carry
\* a decoderConfig again, later outputs carry none.
EncoderMetas(s) ==
  IF s.emitted = 0
  THEN [description : BOOLEAN, colorSpace : BOOLEAN]
  ELSE IF s.emitted = 1
  THEN {[description |-> b, colorSpace |-> b] : b \in BOOLEAN}
  ELSE {[description |-> FALSE, colorSpace |-> FALSE]}

\* "if (isFirstChunk && this.videoDescription)": the metadata built from the
\* captured description (codec, coded size, description, the captured or
\* the default colour space); otherwise the encoder's own metadata.
BuiltMetadata(s) ==
  [built |-> TRUE, description |-> TRUE,
   colorSpace |-> IF s.videoColorSpace # "undefined"
                  THEN "captured" ELSE "default"]

PassedMetadata(meta) ==
  [built |-> FALSE, description |-> meta.description,
   colorSpace |-> IF meta.colorSpace THEN "captured" ELSE "none"]

ChunkMetadataPassedThrough(s, isFirstChunk, meta) == PassedMetadata(meta)

ChunkMetadata(s, isFirstChunk, meta) ==
  IF isFirstChunk /\ s.videoDescription # "undefined"
  THEN BuiltMetadata(s)
  ELSE PassedMetadata(meta)

\* "if (meta?.decoderConfig?.description && !this.videoDescription)" and
\* the same for the colour space: each is taken from the chunk's metadata
\* when none is held.
CaptureCodecInfoOverwriting(s, meta) ==
  [s EXCEPT
     !.videoDescription = IF meta.description THEN "captured" ELSE @,
     !.descriptionFrom = IF meta.description THEN s.emitted + 1 ELSE @,
     !.videoColorSpace = IF meta.colorSpace THEN "captured" ELSE @,
     !.colorSpaceFrom = IF meta.colorSpace THEN s.emitted + 1 ELSE @]

CaptureCodecInfo(s, meta) ==
  LET takeDescription == meta.description /\ s.videoDescription = "undefined"
      takeColorSpace == meta.colorSpace /\ s.videoColorSpace = "undefined"
  IN [s EXCEPT
        !.videoDescription = IF takeDescription THEN "captured" ELSE @,
        !.descriptionFrom = IF takeDescription THEN s.emitted + 1 ELSE @,
        !.videoColorSpace = IF takeColorSpace THEN "captured" ELSE @,
        !.colorSpaceFrom = IF takeColorSpace THEN s.emitted + 1 ELSE @]

\* The output callback: capture the description and the colour space if
\* none is held, count the chunk, call muxer.addVideoChunk (on a null muxer
\* the call throws inside the try and the promise is settled at once), push
\* the promise, this.encodeQueue--.
OutputCallback(s, chunk, meta) ==
  LET s1 == CaptureCodecInfo(s, meta)
      isFirstChunk == s.chunkCount = 0
      s2 == [s1 EXCEPT !.chunkCount = @ + 1,
                       !.outputMetas = Append(@, meta)]
      s3 == IF s2.muxer = "null" THEN s2
            ELSE [s2 EXCEPT
                    !.muxCalls = Append(@, chunk.timestamp),
                    !.muxMetas = Append(@, ChunkMetadata(s2, isFirstChunk, meta)),
                    !.muxUnresolved = @ + 1]
  IN [s3 EXCEPT !.muxingPromises = @ + 1,
                !.encodeQueue = @ - 1,
                !.emitted = @ + 1]

EncoderOutput ==
  /\ encState = "configured"
  /\ encPending # <<>>
  /\ \E meta \in EncoderMetas(State) :
       Commit(OutputCallback([State EXCEPT !.encPending = Tail(@)],
                             EncoderOutputNext(State), meta))

\* VideoMuxer.addVideoChunk: the first call of a stream is rejected when its
\* metadata carries no codec description.
MuxerRejectsCall(k, meta) == k = 1 /\ ~meta.description

\* The oldest unsettled addVideoChunk call settles; a rejection is caught
\* and logged inside the muxing promise.
MuxResolve ==
  /\ muxUnresolved > 0
  /\ \E ok \in BOOLEAN :
       LET k == Len(muxCalls) - muxUnresolved + 1
           kind == IF MuxerRejectsCall(k, muxMetas[k])
                   THEN "MissingCodecDescription"
                   ELSE IF ok THEN "none" ELSE "MuxFailed"
       IN Commit([State EXCEPT
                    !.muxUnresolved = @ - 1,
                    !.muxRejected = IF @ = "none" THEN kind ELSE @,
                    !.fatal = IF @ = "none" THEN kind ELSE @])

\* The encoder fails: it closes itself and calls the error callback,
\* which sets this.cancelled.
EncoderError ==
  /\ encState = "configured"
  /\ Commit([State EXCEPT !.encState = "closed",
                          !.encPending = <<>>,
                          !.cancelled = TRUE,
                          !.encoderFailed = TRUE,
                          !.fatal = IF @ = "none" THEN "EncoderError" ELSE @])

\* cancel() called from outside, between two tasks.
Cancel ==
  Commit(cancel([State EXCEPT
                   !.cancelCalled = @ \/ pc \notin {"idle", "done"}]))

PipelineNext ==
  \/ Start
  \/ LoadVideoDone
  \/ RendererInitDone
  \/ HwSupportDone
  \/ SwSupportDone
  \/ MuxerInitDone
  \/ SeekedEvent
  \/ QueueWaitDone
  \/ RenderDone
  \/ BpWaitDone
  \/ FlushDone
  \/ FlushRejected
  \/ MuxWaitDone
  \/ FinalizeDone
  \/ EncoderOutput
  \/ MuxResolve
  \/ EncoderError
  \/ Cancel

Next == PipelineNext

Spec == Init /\ [][Next]_vars

\* ------------------------------------------------ the time map on its own
\* Trim lists as a configuration may hold them: any order, overlapping or
\* abutting, each with startMs < endMs.
MaxPeriod == 2

Intervals ==
  { [startMs |-> a, endMs |-> b] : a \in 0..MaxTrimTime, b \in 0..MaxTrimTime }

TrimLists ==
  UNION { [1..n -> { t \in Intervals : t.startMs < t.endMs }] : n \in 0..MaxTrims }

\* The trim of scenario S2, in microseconds, and steps that reach the
\* effective times 2 960 000, 3 000 000 and 7 999 999.
TrimsS2 == << [startMs |-> 3000000, endMs |-> 5000000] >>

StepsS2 == {40000, 2960000, 3000000, 7999999}

InitTime ==
  /\ cfg = [frameRate |-> 25, durationUs |-> 0, trimRegions |-> << >>]
  /\ PipelineInit
  /\ \/ tmTrims \in TrimLists /\ tmPeriod \in 1..MaxPeriod
     \/ tmTrims = TrimsS2 /\ tmPeriod \in StepsS2
  /\ tmIdx = 0
  /\ tmSource = mapEffectiveToSourceTime(tmTrims, 0)
  /\ fsTotal = 0 /\ fsIndex = 0 /\ fsKeys = {} /\ fsPts = 0 /\ fsSource = 0
  /\ PreviewIdle

pipelineVars ==
  <<cfg, pc, result, errorKind, cancelled, decoder, renderer, encoder,
    muxer, encodeQueue, muxingPromises, chunkCount, totalFrames,
    frameQueue, frameIndex, decodeIndex, prefillI, cur, currentTime,
    seeking, pendingDecodes, encState, encPending, muxCalls,
    muxUnresolved, finalizeCalls, flushCompleted, submitted,
    queueAtSubmit, emitted, created, released, openDecoded,
    openComposited, fatal,
    encoderFailed,
    videoDescription,
    videoColorSpace,
    muxMetas,
    muxRejected,
    hwAccel,
    configuredWith,
    support,
    outputMetas,
    progress,
    decodeFailed,
    descriptionFrom,
    colorSpaceFrom,
    requested,
    rendered,
    cancelCalled>>

\* decodeFrame's use of the map for the next frame index.
MapNextFrame ==
  /\ tmIdx < MaxFrameIdx
  /\ tmIdx' = tmIdx + 1
  /\ tmSource' = mapEffectiveToSourceTime(tmTrims, (tmIdx + 1) * tmPeriod)
  /\ UNCHANGED <<tmTrims, tmPeriod>>
  /\ UNCHANGED pipelineVars
  /\ UNCHANGED fsVars
  /\ UNCHANGED pvVars

NextTime == MapNextFrame

SpecTime == InitTime /\ [][NextTime]_vars

\* ------------------------------------------ the frame schedule on its own
\* The frame count and the keyFrame flags of whole runs: the loop's
\* "keyFrame: frameIndex % 150 === 0; frameIndex++" for every index below
\* totalFrames, without the decoding and encoding in between.
\* The clip of scenario S1: 3.0 s at 30 frames per second, no trims.
ConfigS1 ==
  [frameRate |-> 30, durationUs |-> 3000000, trimRegions |-> << >>]

\* The clip of scenario S2: 10 s at 25 frames per second, 3 s - 5 s trimmed.
ConfigS2 ==
  [frameRate |-> 25, durationUs |-> 10000000,
   trimRegions |-> << [startMs |-> 3000, endMs |-> 5000] >>]

\* Rates at which idx * (1000000 / frameRate), taken in doubles and cut to
\* an integer, is floor(idx * 1000000 / frameRate) for every index of the
\* runs below.
FrameRates == {25, 30, 50, 60}

\* Clips long enough to pass frame 300 at every rate.
LongConfigs ==
  { [frameRate |-> r, durationUs |-> 13000000, trimRegions |-> << >>] :
      r \in FrameRates }

\* Short clips whose length is, or is not, a whole number of frames, with
\* and without a trim.
ShortConfigs ==
  { [frameRate |-> r, durationUs |-> d, trimRegions |-> tr] :
      r \in FrameRates,
      d \in {33333, 33334, 40000, 100000, 100001, 125000, 280000, 1000000},
      tr \in { << >>, << [startMs |-> 10, endMs |-> 30] >> } }

FrameConfigs == {ConfigS1, ConfigS2} \cup LongConfigs \cup ShortConfigs

InitFrames ==
  /\ cfg \in FrameConfigs
  /\ PipelineInit
  /\ tmTrims = <<>> /\ tmPeriod = 1 /\ tmIdx = 0 /\ tmSource = 0
  /\ fsTotal = TotalFramesOf(cfg)
  /\ fsIndex = 0
  /\ fsKeys = {}
  /\ fsPts = 0
  /\ fsSource = 0
  /\ PreviewIdle

\* One pass of the main loop, as far as the frame index and the keyFrame
\* flag go.
SubmitNextFrame ==
  /\ fsIndex < fsTotal
  /\ fsKeys' = IF KeyFrameOf(fsIndex) THEN fsKeys \cup {fsIndex} ELSE fsKeys
  /\ fsPts' = TimestampOf(cfg, fsIndex)
  /\ fsSource' = SourceTimeUs(cfg, fsIndex)
  /\ fsIndex' = fsIndex + 1
  /\ UNCHANGED fsTotal
  /\ UNCHANGED pipelineVars
  /\ UNCHANGED tmVars
  /\ UNCHANGED pvVars

NextFrames == SubmitNextFrame

SpecFrames == InitFrames /\ [][NextFrames]_vars

\* ------------------------------------------- the preview playback handlers
\* createVideoEventHandlers: the handlers the preview attaches to its video
\* element, and updateTime, the animation-frame callback they schedule.
\* Times are in milliseconds.

MaxPreviewTime == 4

MaxMediaEvents == 2

MaxFrameIds == 3

FrameIds == 1..MaxFrameIds

PreviewRegions ==
  {[startMs |-> a, endMs |-> b] :
     a \in 0..MaxPreviewTime, b \in 1..(MaxPreviewTime + 1)}

PreviewTrimLists ==
  { <<>> } \cup {<<r>> : r \in {q \in PreviewRegions : q.startMs < q.endMs}}
           \cup {<<r1, r2>> : r1 \in {q \in PreviewRegions : q.startMs < q.endMs /\ q.endMs < MaxPreviewTime},
                              r2 \in {q \in PreviewRegions : q.startMs < q.endMs /\ q.startMs > 0}}

videoDuration == MaxPreviewTime

\* The preview's state as one record, for the synchronous code.
Preview ==
  [paused |-> videoPaused, ended |-> videoEnded,
   currentTime |-> videoCurrentTime, events |-> mediaEvents,
   isSeekingRef |-> isSeekingRef, isPlayingRef |-> isPlayingRef,
   currentTimeRef |-> currentTimeRef,
   timeUpdateAnimationRef |-> timeUpdateAnimationRef,
   scheduled |-> scheduledFrames, reported |-> NoReport,
   active |-> activeRegion]

PreviewCommit(s, handler) ==
  /\ videoPaused' = s.paused
  /\ videoEnded' = s.ended
  /\ videoCurrentTime' = s.currentTime
  /\ mediaEvents' = s.events
  /\ isSeekingRef' = s.isSeekingRef
  /\ isPlayingRef' = s.isPlayingRef
  /\ currentTimeRef' = s.currentTimeRef
  /\ timeUpdateAnimationRef' = s.timeUpdateAnimationRef
  /\ scheduledFrames' = s.scheduled
  /\ reported' = s.reported
  /\ activeRegion' = s.active
  /\ lastHandler' = handler
  /\ UNCHANGED <<trimRegionsRef, allowPlaybackRef>>
  /\ UNCHANGED pipelineVars
  /\ UNCHANGED tmVars
  /\ UNCHANGED fsVars

\* video.pause(): the element is paused at once, the 'pause' event is queued.
videoPause(s) ==
  IF s.paused THEN s
  ELSE [s EXCEPT !.paused = TRUE, !.events = Append(@, "pause")]

\* video.currentTime = t: the position changes at once, 'seeking' and then
\* 'seeked' are queued.
videoSetCurrentTime(s, t) ==
  [s EXCEPT !.currentTime = t, !.ended = FALSE,
            !.events = @ \o <<"seeking", "seeked">>]

\* requestAnimationFrame(updateTime), its result stored in the ref: an id
\* no scheduled callback has and the ref does not hold.
requestAnimationFrame(s) ==
  LET id == CHOOSE i \in FrameIds :
              /\ i \notin s.scheduled \cup {s.timeUpdateAnimationRef}
              /\ \A j \in FrameIds :
                   j \notin s.scheduled \cup {s.timeUpdateAnimationRef} => i <= j
  IN [s EXCEPT !.scheduled = @ \cup {id}, !.timeUpdateAnimationRef = id]

cancelAnimationFrame(s, id) == [s EXCEPT !.scheduled = @ \ {id}]

emitTime(s, timeValue) ==
  [s EXCEPT !.currentTimeRef = timeValue,
            !.reported = [made |-> TRUE, time |-> timeValue,
                          playing |-> ~s.paused /\ ~s.ended]]

RECURSIVE findActiveTrimRegion(_, _)
findActiveTrimRegion(regions, currentTimeMs) ==
  IF regions = <<>> THEN NoRegion
  ELSE IF /\ currentTimeMs >= Head(regions).startMs
          /\ currentTimeMs < Head(regions).endMs
       THEN Head(regions)
       ELSE findActiveTrimRegion(Tail(regions), currentTimeMs)

\* The skip both updateTime and handleSeeked make out of a trim region.
SkipRegion(s, region) ==
  IF region.endMs >= videoDuration THEN videoPause(s)
  ELSE emitTime(videoSetCurrentTime(s, region.endMs), region.endMs)

updateTime(s) ==
  LET region == findActiveTrimRegion(trimRegionsRef, s.currentTime)
      s1 == IF region # NoRegion /\ ~s.paused /\ ~s.ended
            THEN SkipRegion([s EXCEPT !.active = region], region)
            ELSE emitTime([s EXCEPT !.active = NoRegion], s.currentTime)
  IN IF ~s1.paused /\ ~s1.ended THEN requestAnimationFrame(s1) ELSE s1

handlePlay(s) ==
  IF s.isSeekingRef THEN videoPause(s)
  ELSE IF ~allowPlaybackRef THEN videoPause(s)
  ELSE LET s1 == [s EXCEPT !.isPlayingRef = TRUE]
           s2 == IF s1.timeUpdateAnimationRef # 0
                 THEN cancelAnimationFrame(s1, s1.timeUpdateAnimationRef)
                 ELSE s1
       IN requestAnimationFrame(s2)

handlePauseKeepsFrame(s) ==
  emitTime([s EXCEPT !.isPlayingRef = FALSE], s.currentTime)

handlePause(s) ==
  LET s1 == [s EXCEPT !.isPlayingRef = FALSE]
      s2 == IF s1.timeUpdateAnimationRef # 0
            THEN [cancelAnimationFrame(s1, s1.timeUpdateAnimationRef)
                    EXCEPT !.timeUpdateAnimationRef = 0]
            ELSE s1
  IN emitTime(s2, s2.currentTime)

handleSeeked(s) ==
  LET s1 == [s EXCEPT !.isSeekingRef = FALSE]
      region == findActiveTrimRegion(trimRegionsRef, s1.currentTime)
  IN IF region # NoRegion /\ s1.isPlayingRef /\ ~s1.paused
     THEN SkipRegion([s1 EXCEPT !.active = region], region)
     ELSE LET s2 == IF ~s1.isPlayingRef /\ ~s1.paused THEN videoPause(s1)
                    ELSE s1
          IN emitTime([s2 EXCEPT !.active = NoRegion], s2.currentTime)

handleSeeking(s) ==
  LET s1 == [s EXCEPT !.isSeekingRef = TRUE]
      s2 == IF ~s1.isPlayingRef /\ ~s1.paused THEN videoPause(s1) ELSE s1
  IN emitTime(s2, s2.currentTime)

\* The video element is mounted, paused at the start.
InitPreview ==
  /\ cfg = [frameRate |-> 25, durationUs |-> 0, trimRegions |-> << >>]
  /\ PipelineInit
  /\ tmTrims = <<>> /\ tmPeriod = 1 /\ tmIdx = 0 /\ tmSource = 0
  /\ fsTotal = 0 /\ fsIndex = 0 /\ fsKeys = {} /\ fsPts = 0 /\ fsSource = 0
  /\ trimRegionsRef \in PreviewTrimLists
  /\ allowPlaybackRef \in BOOLEAN
  /\ videoPaused = TRUE
  /\ videoEnded = FALSE
  /\ videoCurrentTime = 0
  /\ mediaEvents = <<>>
  /\ isSeekingRef = FALSE
  /\ isPlayingRef = FALSE
  /\ currentTimeRef = 0
  /\ timeUpdateAnimationRef = 0
  /\ scheduledFrames = {}
  /\ lastHandler = "none"
  /\ reported = NoReport
  /\ activeRegion = NoRegion

\* video.play() by the user or the editor: a video that ended starts over.
UserPlay ==
  /\ videoPaused
  /\ Len(mediaEvents) < MaxMediaEvents
  /\ LET s1 == IF videoEnded THEN videoSetCurrentTime(Preview, 0) ELSE Preview
     IN PreviewCommit([s1 EXCEPT !.paused = FALSE,
                                 !.events = Append(@, "play")], "none")

\* video.pause() by the user or the editor.
UserPause ==
  /\ ~videoPaused
  /\ Len(mediaEvents) < MaxMediaEvents
  /\ PreviewCommit(videoPause(Preview), "none")

\* The user or the editor sets video.currentTime.
UserSeek ==
  /\ Len(mediaEvents) < MaxMediaEvents
  /\ \E t \in 0..(videoDuration - 1) :
       PreviewCommit(videoSetCurrentTime(Preview, t), "none")

\* Playback advances by one millisecond; at the end of the video the element
\* ends playback, pauses and queues 'pause'.
Tick ==
  /\ ~videoPaused /\ ~videoEnded
  /\ \A i \in 1..Len(mediaEvents) : mediaEvents[i] # "seeked"
  /\ LET s1 == [Preview EXCEPT !.currentTime = @ + 1]
     IN PreviewCommit(IF s1.currentTime >= videoDuration
                      THEN videoPause([s1 EXCEPT !.ended = TRUE])
                      ELSE s1, "none")

\* The browser dispatches the oldest queued media event to its handler.
PlayEvent ==
  /\ mediaEvents # <<>> /\ Head(mediaEvents) = "play"
  /\ PreviewCommit(handlePlay([Preview EXCEPT !.events = Tail(@)]),
                   "handlePlay")

PauseEvent ==
  /\ mediaEvents # <<>> /\ Head(mediaEvents) = "pause"
  /\ PreviewCommit(handlePause([Preview EXCEPT !.events = Tail(@)]),
                   "handlePause")

SeekingEvent ==
  /\ mediaEvents # <<>> /\ Head(mediaEvents) = "seeking"
  /\ PreviewCommit(handleSeeking([Preview EXCEPT !.events = Tail(@)]),
                   "handleSeeking")

PreviewSeekedEvent ==
  /\ mediaEvents # <<>> /\ Head(mediaEvents) = "seeked"
  /\ PreviewCommit(handleSeeked([Preview EXCEPT !.events = Tail(@)]),
                   "handleSeeked")

\* The browser runs a scheduled animation-frame callback.
AnimationFrame ==
  \E id \in scheduledFrames :
    PreviewCommit(updateTime([Preview EXCEPT !.scheduled = @ \ {id}]),
                  "updateTime")

NextPreview ==
  \/ UserPlay
  \/ UserPause
  \/ UserSeek
  \/ Tick
  \/ PlayEvent
  \/ PauseEvent
  \/ SeekingEvent
  \/ PreviewSeekedEvent
  \/ AnimationFrame

SpecPreview == InitPreview /\ [][NextPreview]_vars

\* ================================================================ claims
Running == pc \notin {"idle", "done"}
Returned == pc = "done"

\* The frames export() holds: the one taken from the queue and the queue.
HeldFrames == cur \o frameQueue

\* C1: if cancel() is called while export() is running, export() returns
\* the 'Export cancelled' failure: never success, never another error.
C1_CancelYieldsCancelled ==
  (Returned /\ cancelCalled) => result = "cancelled"

\* C2: once export() has returned, every decoded and every composited
\* VideoFrame ever created has been closed.
C2_NoFrameLeftOpen ==
  Returned => (openDecoded = 0 /\ openComposited = 0)

\* C3: the addVideoChunk calls carry strictly increasing timestamps.
C3_MuxOrderIncreasing ==
  \A i, j \in 1..Len(muxCalls) : i < j => muxCalls[i] < muxCalls[j]

\* C3 witness: every chunk of a run has reached the muxer, after a
\* fire-and-forget decode completed.
C3_Witness ==
  /\ Len(muxCalls) = NumFrames
  /\ totalFrames = NumFrames
  /\ decodeIndex > DECODE_AHEAD

\* C4 (as amended): the i-th frame submitted (counting from 0) has the
\* timestamp floor(j * 1000000 / frameRate) of the decode index j of the
\* frame it was made from and duration floor(1000000 / frameRate), and so
\* has the i-th chunk handed to the muxer; j = i as long as no scheduled
\* decode has failed, j >= i after one has; timestamps strictly increase.
C4_TimestampsByIndex ==
  /\ \A i \in 1..Len(submitted) :
       /\ \E j \in (i - 1)..(totalFrames - 1) :
            /\ submitted[i].timestamp = (j * US_PER_SECOND) \div cfg.frameRate
            /\ ~decodeFailed => j = i - 1
       /\ i > 1 => submitted[i].timestamp > submitted[i - 1].timestamp
       /\ submitted[i].duration = US_PER_SECOND \div cfg.frameRate
  /\ \A i \in 1..Len(muxCalls) : muxCalls[i] = submitted[i].timestamp

\* C4 witness: all frames of a 30 fps run were submitted, some of them
\* while earlier frames were still in the encoder.
C4_Witness ==
  /\ Len(submitted) = NumFrames
  /\ cfg.frameRate = 30
  /\ \E i \in 1..Len(submitted) : queueAtSubmit[i] > 0

\* C4 (as stated): the i-th frame submitted has timestamp i * frame_period,
\* frame_period being the whole number of microseconds of one frame.
C4_Original ==
  \A i \in 1..Len(submitted) :
    /\ submitted[i].timestamp = (i - 1) * FrameDurationUs(cfg)
    /\ submitted[i].duration = FrameDurationUs(cfg)

\* C5 (as amended): 0 <= encodeQueue <= MAX_ENCODE_QUEUE always; every
\* frame was submitted with encodeQueue < MAX_ENCODE_QUEUE; and while the
\* encoder is configured encodeQueue = frames submitted - chunks emitted.
C5_Backpressure ==
  /\ 0 <= encodeQueue /\ encodeQueue <= MAX_ENCODE_QUEUE
  /\ \A i \in 1..Len(queueAtSubmit) : queueAtSubmit[i] < MAX_ENCODE_QUEUE
  /\ encState = "configured" => encodeQueue = Len(submitted) - emitted

\* C5 witness: the loop waited on a full encoder queue and then submitted.
C5_Witness ==
  /\ encodeQueue = MAX_ENCODE_QUEUE
  /\ Len(submitted) > MAX_ENCODE_QUEUE
  /\ encState = "configured"

\* C5 (as stated): in every state of a run encodeQueue equals frames
\* submitted minus chunks emitted and lies in 0..MAX_ENCODE_QUEUE.
C5_Original ==
  Running =>
    /\ encodeQueue = Len(submitted) - emitted
    /\ 0 <= encodeQueue /\ encodeQueue <= MAX_ENCODE_QUEUE

\* C6: the source time of frame k lies in no trim region [startMs, endMs).
C6_TrimExclusion ==
  \A i \in 1..Len(tmTrims) :
    ~(tmTrims[i].startMs <= tmSource /\ tmSource < tmTrims[i].endMs)

\* C6 witness: a frame after the first was mapped across two trims.
C6_Witness ==
  /\ Len(tmTrims) = 2
  /\ tmIdx > 0
  /\ tmSource = tmIdx * tmPeriod + SumLen(tmTrims)
  /\ tmTrims[1].startMs > tmTrims[2].startMs

\* C7: a success result means every frame 0..totalFrames-1 was submitted,
\* flush completed and finalize was called exactly once.
C7_SuccessIsComplete ==
  result = "success" =>
    /\ Len(submitted) = Cardinality(0..(totalFrames - 1))
    /\ emitted = Len(submitted)
    /\ flushCompleted
    /\ finalizeCalls = 1

\* C7 witness: a run of NumFrames frames returned success.
C7_Witness ==
  /\ result = "success"
  /\ totalFrames = NumFrames
  /\ Len(submitted) = NumFrames

\* C8: at most one decodeFrame call is waiting on a seek at any time.
C8_SingleOutstandingSeek ==
  Len(pendingDecodes) <= 1

\* C9: every decoded frame held by export() was captured with the element
\* within 1 ms of the source time its own decodeFrame call asked for.
C9_CapturedAtRequestedTime ==
  \A i \in 1..Len(HeldFrames) :
    Abs(HeldFrames[i].capturedAt - HeldFrames[i].sourceTimestamp)
      <= SEEK_EPSILON_US

\* C10: once export() has returned, every component that was created has
\* been released exactly once (the decoder and the renderer destroyed, the
\* encoder closed).
C10_ReleasedExactlyOnce ==
  Returned =>
    /\ released.decoder = created.decoder
    /\ released.renderer = created.renderer
    /\ released.encoder <= 1
    /\ created.encoder = 1 => encState = "closed"


\* C11: cancel() is idempotent.  In every state, calling cancel() twice in
\* a row leaves the exporter exactly as calling it once does (nothing is
\* closed or destroyed a second time), and once export() has returned
\* success a cancel() changes nothing but the cancelled flag.
C11_CancelIdempotent ==
  /\ cancel(cancel(State)) = cancel(State)
  /\ result = "success" => cancel(State) = [State EXCEPT !.cancelled = TRUE]

\* C11 witness: cancel() has been called under a running export() and has
\* released the decoder, the renderer and the configured encoder; the next
\* call is a second one.
C11_Witness ==
  /\ cancelCalled /\ cancelled /\ Running
  /\ released.decoder = 1 /\ released.renderer = 1 /\ released.encoder = 1
  /\ decoder = "null" /\ renderer = "null" /\ encoder = "null"

\* C12: when a component failed during the run, export() returns a failure
\* that carries the first such error: not 'Export cancelled', not an error
\* raised on a null component or by an aborted flush, and not success.
C12_ReturnsOriginalError ==
  (Returned /\ fatal # "none") => (result = "error" /\ errorKind = fatal)

\* C13: once the encoder has reported an error the export is marked
\* cancelled, no frame is submitted to the encoder any more (none is
\* waiting in it), and export() does not return success.
C13_EncoderErrorFailsRun ==
  encoderFailed =>
    /\ cancelled
    /\ encPending = <<>>
    /\ Returned => result # "success"

\* C14: if an addVideoChunk call was rejected, export() does not return
\* success.
C14_MuxFailureIsFatal ==
  (Returned /\ muxRejected # "none") => result # "success"

\* C15: when the trims leave nothing (the effective duration, and with it
\* totalFrames, is zero or negative), export() does not return success.
C15_EmptyOutputFails ==
  (Returned /\ TotalFramesOf(cfg) <= 0) => result # "success"

\* cancel() took the encoder away while isConfigSupported was pending, and
\* this.encoder.configure threw on the null reference.
ConfigureOnNull ==
  /\ cancelCalled /\ Returned
  /\ errorKind = "TypeError" /\ configuredWith = "none"

\* C16: the encoder is configured with prefer-hardware exactly when that
\* configuration is supported, with prefer-software exactly when it is not
\* and prefer-software is supported; when neither is supported export()
\* returns the 'Video encoding not supported' error with no frame decoded
\* or submitted and with cleanup() run (every reference null, the decoder
\* and the renderer destroyed).  A cancel() during the support query makes
\* the configure call fail on the null encoder instead.
C16_HardwareThenSoftware ==
  /\ configuredWith = "prefer-hardware" => support.hw = "yes"
  /\ configuredWith = "prefer-software" =>
       (support.hw = "no" /\ support.sw = "yes")
  /\ support.hw = "yes" =>
       (configuredWith = "prefer-hardware" \/ ConfigureOnNull)
  /\ (support.hw = "no" /\ support.sw = "yes") =>
       (configuredWith = "prefer-software" \/ ConfigureOnNull)
  /\ (support.hw = "no" /\ support.sw = "no") =>
       /\ Returned /\ result = "error" /\ errorKind = "CodecUnsupported"
       /\ configuredWith = "none"
       /\ submitted = <<>> /\ frameQueue = <<>> /\ pendingDecodes = <<>>
       /\ openDecoded = 0 /\ ~seeking
       /\ decoder = "null" /\ renderer = "null"
       /\ encoder = "null" /\ muxer = "null"
       /\ released.decoder = created.decoder
       /\ released.renderer = created.renderer

\* C16 witness: prefer-hardware was refused, the encoder was configured
\* with prefer-software and the run delivered all its frames.
C16_Witness ==
  /\ support.hw = "no" /\ configuredWith = "prefer-software"
  /\ result = "success" /\ Len(submitted) = NumFrames
  /\ emitted = NumFrames

\* C17 (as amended): when the encoder's first output carries a description,
\* the first addVideoChunk call gets metadata built by the exporter: the
\* captured description with the captured colour space, or the default one
\* when the encoder gave none; the muxer then has no ground to reject the
\* call for a missing description.  When the encoder's first output carries
\* no description, its metadata is forwarded as it came.
C17_FirstChunkDescription ==
  Len(muxMetas) > 0 =>
    IF outputMetas[1].description
    THEN /\ muxMetas[1] =
              [built |-> TRUE, description |-> TRUE,
               colorSpace |-> IF outputMetas[1].colorSpace
                              THEN "captured" ELSE "default"]
         /\ muxRejected # "MissingCodecDescription"
    ELSE /\ ~muxMetas[1].built
         /\ ~muxMetas[1].description

\* C17 witness: the encoder gave a description without a colour space, the
\* first call carried the built metadata, no call was rejected and the
\* export succeeded.
C17_Witness ==
  /\ result = "success" /\ Len(muxMetas) = NumFrames
  /\ outputMetas[1].description /\ ~outputMetas[1].colorSpace
  /\ muxMetas[1].built /\ muxRejected = "none"

\* C17 (as stated): the first addVideoChunk call of a run always carries a
\* full codec description built from the captured one.
C17_Original ==
  Len(muxMetas) > 0 => (muxMetas[1].built /\ muxMetas[1].description)

\* C18: frame i is passed to the encoder with keyFrame set exactly when
\* i % 150 = 0, so frame 0 always is, at every frame rate.
C18_KeyFrameEvery150 ==
  /\ \A i \in 0..(fsIndex - 1) : (i \in fsKeys) <=> (i % 150 = 0)
  /\ fsIndex > 0 => 0 \in fsKeys

\* C18 witness: a 50 fps run has passed frame 300, its third keyframe.
C18_Witness ==
  /\ cfg.frameRate = 50
  /\ fsIndex > 300
  /\ fsKeys = {0, 150, 300}

\* C19 (as amended): in scenario S1 (90 frames) only frame 0 is a keyframe.
C19_S1KeyFrames ==
  (cfg = ConfigS1 /\ fsIndex = fsTotal) => (fsTotal = 90 /\ fsKeys = {0})

\* C19 witness: all frames of scenario S1 have been passed to the encoder.
C19_Witness ==
  cfg = ConfigS1 /\ fsIndex = 90

\* C19 (as stated): in scenario S1 the keyframes are frames 0, 30 and 60.
C19_Original ==
  (cfg = ConfigS1 /\ fsIndex = fsTotal) => fsKeys = {0, 30, 60}

\* The effective duration of the configured clip, in microseconds.
EffectiveDurationUs ==
  cfg.durationUs - US_PER_MS * SumLen(cfg.trimRegions)

\* C20 (as amended): totalFrames = ceil(effective duration * frameRate), the
\* duration in seconds and the product a double: it is the one integer n
\* with (n - 1) / frameRate < effective duration <= n / frameRate, or one
\* more than that for a clip of 0.28 s at 25 or 50 frames per second, whose
\* product is a whole number and comes out above it in doubles.
C20_TotalFrames ==
  /\ EffectiveDurationUs * cfg.frameRate <= fsTotal * US_PER_SECOND
  /\ \/ (fsTotal - 1) * US_PER_SECOND < EffectiveDurationUs * cfg.frameRate
     \/ /\ (fsTotal - 1) * US_PER_SECOND = EffectiveDurationUs * cfg.frameRate
        /\ cfg.durationUs = 280000 /\ cfg.trimRegions = << >>
        /\ cfg.frameRate \in {25, 50}

\* C20 witness: a trimmed 50 fps clip whose length is no whole number of
\* frames has been counted.
C20_Witness ==
  /\ cfg.frameRate = 50 /\ cfg.trimRegions # << >>
  /\ fsTotal = 5
  /\ EffectiveDurationUs * cfg.frameRate < fsTotal * US_PER_SECOND
  /\ fsIndex = fsTotal

\* C20 (as stated): totalFrames = ceil(effective duration / frame period),
\* the period being the whole number of microseconds of one frame: the one
\* integer n with (n - 1) * period < effective duration <= n * period.
C20_Original ==
  /\ (fsTotal - 1) * (US_PER_SECOND \div cfg.frameRate) < EffectiveDurationUs
  /\ EffectiveDurationUs <= fsTotal * (US_PER_SECOND \div cfg.frameRate)

\* C21 (as amended): scenario S1 has 90 frames, and frame i is passed to the
\* encoder with timestamp floor(i * 1000000 / 30), that is
\* i * 33333 + floor(i / 3) microseconds.
C21_S1FramesAndPts ==
  cfg = ConfigS1 =>
    /\ fsTotal = 90
    /\ fsIndex <= 90
    /\ fsIndex > 0 => fsPts = (fsIndex - 1) * 33333 + (fsIndex - 1) \div 3

\* C21 witness: the last frame of scenario S1 has been passed to the
\* encoder.
C21_Witness ==
  cfg = ConfigS1 /\ fsIndex = 90 /\ fsPts = 2966666

\* C21 (as stated): scenario S1 has 90 frames and frame i has timestamp
\* i * 33333.
C21_Original ==
  cfg = ConfigS1 =>
    /\ fsTotal = 90
    /\ fsIndex > 0 => fsPts = (fsIndex - 1) * 33333

\* C22: mapEffectiveToSourceTime is monotonic: the source time of the next
\* frame is never below that of the frame before it, whatever the trims.
C22_SourceTimeMonotonic ==
  [][tmSource' >= tmSource]_vars

\* C22 witness: with two overlapping trims listed out of order, a frame
\* before the first trim and then a frame moved past both were mapped.
C22_Witness ==
  /\ Len(tmTrims) = 2
  /\ tmTrims[2].startMs < tmTrims[1].startMs
  /\ tmTrims[1].startMs < tmTrims[2].endMs
  /\ tmTrims[2].startMs > 0
  /\ tmIdx > 1
  /\ tmSource = tmIdx * tmPeriod + SumLen(tmTrims)

\* C23: round trip.  Taking from the source time of a frame the length of
\* every trim that ends at or before it gives the frame's effective time
\* again.
C23_RoundTrip ==
  LET RECURSIVE EndedLen(_, _)
      EndedLen(trims, s) ==
        IF trims = <<>> THEN 0
        ELSE (IF Head(trims).endMs <= s
              THEN Head(trims).endMs - Head(trims).startMs ELSE 0)
             + EndedLen(Tail(trims), s)
  IN tmSource - EndedLen(tmTrims, tmSource) = tmIdx * tmPeriod

\* C23 witness: a frame was mapped past one trim of two, listed out of
\* order, and not past the other.
C23_Witness ==
  /\ Len(tmTrims) = 2
  /\ tmTrims[2].endMs < tmTrims[1].startMs
  /\ tmIdx > 0
  /\ tmSource > tmTrims[2].endMs
  /\ tmSource < tmTrims[1].startMs
  /\ tmSource > tmIdx * tmPeriod

\* C24: the time map gives, for any trim list, the results it gives for
\* the normalized list (sorted by start, abutting and overlapping regions
\* merged): the same source time for every frame and the same effective
\* duration.
C24_NormalizedTrims ==
  LET RECURSIVE Merge(_)
      Merge(sorted) ==
        IF Len(sorted) <= 1 THEN sorted
        ELSE LET a == sorted[1]
                 b == sorted[2]
                 rest == SubSeq(sorted, 3, Len(sorted))
             IN IF b.startMs <= a.endMs
                THEN Merge(<<[startMs |-> a.startMs,
                              endMs |-> IF b.endMs > a.endMs
                                        THEN b.endMs ELSE a.endMs]>> \o rest)
                ELSE <<a>> \o Merge(<<b>> \o rest)
      normalized == Merge(SortByStart(tmTrims))
  IN /\ tmSource = mapEffectiveToSourceTime(normalized, tmIdx * tmPeriod)
     /\ getEffectiveDuration(tmTrims, MaxTrimTime)
          = getEffectiveDuration(normalized, MaxTrimTime)

\* C25: the source time of effective time t is what a scan of the trims in
\* ascending start order gives that starts with candidate = t and adds
\* (end - start) for each trim whose start is at or before the candidate;
\* for one trim [s, e) that is t when t < s and t + (e - s) when t >= s;
\* for the trim of scenario S2, 2 960 000 maps to itself, 3 000 000 to
\* 5 000 000 and 7 999 999 to 9 999 999.
C25_ScanDefinition ==
  LET t == tmIdx * tmPeriod
      RECURSIVE Scan(_, _)
      Scan(trims, candidate) ==
        IF trims = <<>> THEN candidate
        ELSE Scan(Tail(trims),
                  IF Head(trims).startMs <= candidate
                  THEN candidate + (Head(trims).endMs - Head(trims).startMs)
                  ELSE candidate)
  IN /\ tmSource = Scan(SortByStart(tmTrims), t)
     /\ Len(tmTrims) = 1 =>
          tmSource = IF t < tmTrims[1].startMs
                     THEN t
                     ELSE t + (tmTrims[1].endMs - tmTrims[1].startMs)
     /\ tmTrims = TrimsS2 =>
          /\ t = 2960000 => tmSource = 2960000
          /\ t = 3000000 => tmSource = 5000000
          /\ t = 7999999 => tmSource = 9999999

\* C25 witness: effective time 7 999 999 of scenario S2 was mapped.
C25_Witness ==
  /\ tmTrims = TrimsS2
  /\ tmIdx * tmPeriod = 7999999
  /\ tmSource = 9999999

\* C26: muxer.finalize is invoked only after encoder.flush has completed
\* and every addVideoChunk call of the run has settled; no addVideoChunk
\* call is pending when finalize begins and none starts from then on.
C26_FinalizeAfterFlushAndMux ==
  [][finalizeCalls' > 0 =>
       /\ flushCompleted'
       /\ muxUnresolved' = 0
       /\ encPending' = <<>>
       /\ finalizeCalls' > finalizeCalls =>
            /\ flushCompleted
            /\ muxUnresolved = 0
            /\ muxCalls' = muxCalls
       /\ finalizeCalls > 0 => muxCalls' = muxCalls]_vars

\* C26 witness: finalize has begun in a run that muxed several chunks.
C26_Witness ==
  /\ pc = "finalize"
  /\ finalizeCalls = 1
  /\ Len(muxCalls) = NumFrames
  /\ flushCompleted

\* C27: one progress event per processed frame: the k-th event of a run has
\* currentFrame = k, the run's totalFrames, the percentage
\* 100 * k / totalFrames (here in whole percent), within 0..100, and
\* estimated remaining time 0; currentFrame grows by exactly 1 from one
\* event to the next and the last event of a successful run has
\* currentFrame = totalFrames.
C27_ProgressPerFrame ==
  /\ Len(progress) = frameIndex
  /\ \A k \in 1..Len(progress) :
       /\ progress[k].currentFrame = k
       /\ progress[k].totalFrames = totalFrames
       /\ progress[k].percentage * totalFrames <= 100 * k
       /\ 100 * k < (progress[k].percentage + 1) * totalFrames
       /\ progress[k].percentage \in 0..100
       /\ progress[k].estimatedTimeRemaining = 0
       /\ k > 1 => progress[k].currentFrame = progress[k - 1].currentFrame + 1
  /\ result = "success" /\ totalFrames > 0 =>
       /\ progress # <<>>
       /\ progress[Len(progress)].currentFrame = totalFrames

\* C27 witness: a successful run has reported every frame.
C27_Witness ==
  /\ result = "success"
  /\ Len(progress) = NumFrames
  /\ progress[NumFrames].percentage = 100

\* C27 as stated: the third field is the fraction k / totalFrames, within
\* [0, 1].
C27_Original ==
  \A k \in 1..Len(progress) :
    /\ progress[k].currentFrame = k
    /\ progress[k].totalFrames = totalFrames
    /\ progress[k].percentage * totalFrames = k
    /\ progress[k].percentage <= 1
    /\ progress[k].estimatedTimeRemaining = 0

\* C28: the decode-ahead queue is bounded: the decoded frames in the queue
\* plus the decodes still outstanding never exceed DECODE_AHEAD; the
\* pre-decode loop issues min(DECODE_AHEAD, totalFrames) decodes one after
\* another, each awaited before the next.
C28_DecodeAheadBounded ==
  /\ Len(frameQueue) + Len(pendingDecodes) <= DECODE_AHEAD
  /\ pc = "prefill" =>
       /\ prefillI < Min(DECODE_AHEAD, totalFrames)
       /\ pendingDecodes = <<prefillI>>
       /\ Len(frameQueue) = prefillI
       /\ \A k \in 1..Len(frameQueue) : frameQueue[k].idx = k - 1
  /\ pc = "render" /\ frameIndex = 0 =>
       /\ pendingDecodes = <<>>
       /\ Len(cur) + Len(frameQueue) = Min(DECODE_AHEAD, totalFrames)

\* C28 witness: in the main loop the queue and a decode under way add up
\* to the depth.
C28_Witness ==
  /\ frameIndex > 0
  /\ pendingDecodes # <<>>
  /\ Len(frameQueue) + Len(pendingDecodes) = DECODE_AHEAD

\* C29: when a scheduled decode has failed and the queue is empty with
\* frames still to process and no decode outstanding, the run does not go
\* on waiting for the queue: it ends with an error.
C29_StarvationIsFatal ==
  /\ decodeFailed
  /\ frameQueue = <<>>
  /\ pendingDecodes = <<>>
  /\ frameIndex < totalFrames
  => pc # "queueWait"

\* C30: the cancellation flag is observed at every await point: once
\* cancel() has been called the run is not left waiting for a decoded
\* frame; it returns without one being queued.
C30_CancelEndsQueueWait ==
  cancelCalled /\ frameQueue = <<>> => pc # "queueWait"

\* C31: once the cancelled flag is set, by cancel() or by an encoder error,
\* no frame is submitted to the encoder and neither encoder.flush nor
\* muxer.finalize is invoked.
C31_NothingAfterCancelled ==
  [][/\ Len(submitted') > Len(submitted) => ~cancelled
     /\ pc' = "flush" /\ pc # "flush" => ~cancelled'
     /\ finalizeCalls' > finalizeCalls => ~cancelled]_vars

C33_MuxerDrivenSerially == muxUnresolved <= 1

\* C34 (as amended): the description and the colour space are each captured
\* once per run, from the first chunk whose metadata carries one, and a
\* later chunk's metadata does not replace them; they are attached to the
\* metadata of the first chunk only, when that chunk carried a description:
\* every later chunk's metadata is handed to the muxer as the encoder gave
\* it.
C34_CapturedOnce ==
  LET RECURSIVE FirstWith(_, _)
      FirstWith(has(_), k) ==
        IF k > Len(outputMetas) THEN 0
        ELSE IF has(outputMetas[k]) THEN k
        ELSE FirstWith(has, k + 1)
      HasDescription(m) == m.description
      HasColorSpace(m) == m.colorSpace
  IN /\ descriptionFrom = FirstWith(HasDescription, 1)
     /\ colorSpaceFrom = FirstWith(HasColorSpace, 1)
     /\ videoDescription # "undefined" => descriptionFrom > 0
     /\ videoColorSpace # "undefined" => colorSpaceFrom > 0
     /\ Len(muxMetas) = Len(outputMetas)
     /\ \A k \in 1..Len(muxMetas) :
          muxMetas[k].built <=> (k = 1 /\ outputMetas[1].description)
     /\ \A k \in 2..Len(muxMetas) :
          /\ muxMetas[k].description = outputMetas[k].description
          /\ muxMetas[k].colorSpace =
               IF outputMetas[k].colorSpace THEN "captured" ELSE "none"

\* C34 witness: the first two chunks both carried a description and a colour
\* space, those of the first are held, and a later chunk came without.
C34_Witness ==
  /\ Len(outputMetas) > 2
  /\ outputMetas[1].description /\ outputMetas[1].colorSpace
  /\ outputMetas[2].description /\ outputMetas[2].colorSpace
  /\ descriptionFrom = 1 /\ colorSpaceFrom = 1
  /\ videoDescription = "captured"
  /\ ~muxMetas[3].description

\* C34 as stated: once a description is held, every later chunk whose own
\* metadata has none is handed to the muxer with the held one attached.
C34_Original ==
  \A k \in 2..Len(muxMetas) :
    (descriptionFrom \in 1..(k - 1) /\ ~outputMetas[k].description)
      => muxMetas[k].description

\* C35: the encoder goes unconfigured -> configured -> closed: configure is
\* called on the unconfigured encoder, encode and flush only while it is
\* configured, close only from the configured state, and nothing is called
\* on the encoder once it is closed.
C35_EncoderLifecycle ==
  [][/\ encState' # encState =>
          \/ encState = "none" /\ encState' = "unconfigured"
          \/ encState = "unconfigured" /\ encState' = "configured"
          \/ encState = "configured" /\ encState' = "closed"
     /\ Len(submitted') > Len(submitted) =>
          encoder # "null" /\ encState = "configured"
     /\ pc' = "flush" /\ pc # "flush" =>
          encoder' # "null" /\ encState' = "configured"
     /\ released'.encoder > released.encoder =>
          /\ encState = "configured"
          /\ released'.encoder = released.encoder + 1
     /\ encState = "closed" =>
          /\ submitted' = submitted
          /\ released'.encoder = released.encoder
          /\ configuredWith' = configuredWith
          /\ pc' = "flush" => pc = "flush"]_vars

\* C35 witness: the encoder closed itself on an error and the frame then in
\* the loop went by without being encoded.
C35_Witness ==
  /\ encoderFailed
  /\ encState = "closed"
  /\ finalizeCalls = 0
  /\ frameIndex > Len(submitted)

\* C36: every run terminates when seeks complete, the encoder emits a chunk
\* for every submitted frame and muxing calls resolve: as long as export()
\* has not returned, one of the events it waits for can still occur.
C36_RunCanGoOn ==
  pc \notin {"idle", "done"} =>
    ENABLED (\/ LoadVideoDone \/ RendererInitDone \/ HwSupportDone
             \/ SwSupportDone \/ MuxerInitDone \/ SeekedEvent
             \/ QueueWaitDone \/ RenderDone \/ BpWaitDone \/ FlushDone
             \/ FlushRejected \/ MuxWaitDone \/ FinalizeDone
             \/ EncoderOutput \/ MuxResolve)

\* C37: in a run that succeeds every frame index 0..totalFrames-1 was
\* requested from the source exactly once, in increasing order, the first
\* min(DECODE_AHEAD, totalFrames) of them by the pre-decode loop; each
\* decoded frame was rendered and submitted exactly once; the queue is
\* empty when the main loop has ended.
C37_EachFrameOnce ==
  LET n == IF totalFrames > 0 THEN totalFrames ELSE 0
  IN /\ \A k \in 1..Len(requested) : requested[k] = k - 1
     /\ Len(requested) <= n
     /\ pc = "prefill" => Len(requested) = prefillI + 1
     /\ pc = "render" /\ frameIndex = 0 =>
          Len(requested) = Min(DECODE_AHEAD, totalFrames)
     /\ pc \in {"flush", "muxWait", "finalize"} \/ result = "success" =>
          /\ Len(requested) = n
          /\ Len(rendered) = n
          /\ \A k \in 1..n : rendered[k] = k - 1
          /\ Len(submitted) = n
          /\ \A k \in 1..n : submitted[k].timestamp = TimestampOf(cfg, k - 1)
          /\ frameQueue = <<>>
          /\ pendingDecodes = <<>>

\* C37 witness: a run of more frames than the decode-ahead depth succeeded.
C37_Witness ==
  /\ result = "success"
  /\ totalFrames > DECODE_AHEAD
  /\ Len(requested) = totalFrames
  /\ Len(rendered) = totalFrames

\* C38: with trims that are pairwise disjoint and lie within the source,
\* every frame index below totalFrames maps to a source time strictly below
\* the source duration: no decode asks for a time at or past the end.
C38_SourceTimeBelowEnd ==
  LET trims == cfg.trimRegions
      within ==
        \A i \in 1..Len(trims) :
          /\ 0 <= trims[i].startMs
          /\ trims[i].endMs * US_PER_MS <= cfg.durationUs
      disjoint ==
        \A i, j \in 1..Len(trims) :
          i < j => \/ trims[i].endMs <= trims[j].startMs
                   \/ trims[j].endMs <= trims[i].startMs
  IN (within /\ disjoint /\ fsIndex > 0) => fsSource < cfg.durationUs

\* C39: in the preview, at most one updateTime animation-frame callback is
\* scheduled at any time, and none is scheduled once handlePause has run.
C39_OneScheduledFrame ==
  /\ Cardinality(scheduledFrames) <= 1
  /\ lastHandler = "handlePause" => scheduledFrames = {}

\* C39 happens: handlePause has run while the video was already playing
\* again, and no callback is left.
C39_Witness ==
  /\ lastHandler = "handlePause"
  /\ reported.playing
  /\ timeUpdateAnimationRef = 0
  /\ scheduledFrames = {}

\* C40: when updateTime or handleSeeked finds the playing video inside a trim
\* region, the video is moved to the region's end and that end is reported,
\* or, the end being at or past the duration, paused; and no time the two
\* report while the video plays lies inside a trim region.
C40_TrimsSkipped ==
  /\ (lastHandler \in {"updateTime", "handleSeeked"} /\ activeRegion # NoRegion)
       => IF activeRegion.endMs >= videoDuration THEN videoPaused
          ELSE /\ videoCurrentTime = activeRegion.endMs
               /\ reported.time = activeRegion.endMs
  /\ (lastHandler \in {"updateTime", "handleSeeked"} /\ reported.playing)
       => findActiveTrimRegion(trimRegionsRef, reported.time) = NoRegion

====
